---- MODULE Spec2Model ----
(***************************************************************************)
(* Model of app.py: the request queue, the status table, the durable       *)
(* file, the worker thread (process_queue) and the request handlers        *)
(* (submit_request, check_status).                                         *)
(*                                                                         *)
(* Python strings that the code inspects (URLs, phrases, comment texts)    *)
(* are sequences of one-character strings, so that `in`, lower() and       *)
(* concatenation are computed.  Strings the code only stores (email,       *)
(* status values, messages) are TLA+ strings.  A Python dict is a function *)
(* whose DOMAIN is its key set; request_status also keeps its insertion    *)
(* order (status_order), as Python dicts do.                               *)
(*                                                                         *)
(* Spec, FaultySpec and LiveSpec run the program; FunctionSpec applies     *)
(* extract_timestamps and get_filtered_comments to arguments of their own. *)
(***************************************************************************)
EXTENDS Integers, Sequences, FiniteSets, TLC

\* ------------------------------------------------------------------ bounds
\* number of ids uuid4 can hand out (submissions over all lifetimes)
MaxJobs == 2
\* number of crash/restarts
MaxCrashes == 1
\* number of writes of QUEUE_FILE that fail
MaxIoErrors == 1
\* pieces a text given to extract_timestamps is made of
MaxTokens == 5
\* characters of a comment text given to get_filtered_comments
MaxTextLen == 2
\* comments the source yields in a call of get_filtered_comments
MaxStream == 2
\* phrases given to get_filtered_comments
MaxPhrases == 2

\* ----------------------------------------------------------- sample inputs
Ids == 1..MaxJobs
Handlers == {"h1", "h2"}

URL_WATCH == <<"y","o","u","t","u","b","e",".","c","o","m","/","w","a","t","c","h","?","v","=","X">>
URL_SHORT == <<"y","o","u","t","u",".","b","e","/","X">>
URL_OTHER == <<"v","i","m","e","o",".","c","o","m","/","X">>
EMAIL == "user@example.com"

\* a JSON value of a request body, tagged with its Python type
JsonList(items) == [type |-> "list", items |-> items, chars |-> <<>>]
JsonStr(chars) == [type |-> "str", items |-> <<>>, chars |-> chars]

PHRASES_ONE == JsonList(<< <<"a">> >>)
PHRASES_TWO == JsonList(<< <<"A">>, <<"b">> >>)

Body(url, phrases) == [video_url |-> url, phrases |-> phrases, email |-> EMAIL]

ValidBodies == {Body(URL_WATCH, PHRASES_TWO)}

Without(d, k) == [x \in DOMAIN d \ {k} |-> d[x]]

InvalidBodies ==
    {Without(Body(URL_WATCH, PHRASES_ONE), k) : k \in {"video_url", "phrases", "email"}}
    \cup {Body(URL_OTHER, PHRASES_ONE),
          Body(URL_WATCH, JsonList(<<>>)),
          Body(URL_WATCH, JsonStr(<<"a">>))}

Bodies == ValidBodies \cup InvalidBodies

\* comment records the external source can yield
Comment(text, cid) == [text |-> text, cid |-> cid]
STREAM_ONE ==
    << Comment(<<"b">>, <<"c","1">>),
       Comment(<<"a","B"," ","1",":","0","5">>, <<"c","2">>) >>
STREAM_TWO == << Comment(<<"a","b">>, <<"c","1">>), Comment(<<"B","a">>, <<>>) >>

\* how the external source behaves on one call: the comments it would yield, and
\* whether contacting it or iterating over them raises
Source(stream, outcome) == [stream |-> stream, outcome |-> outcome]
SourceBehaviours ==
    {Source(<<>>, "ok"), Source(STREAM_ONE, "ok"), Source(STREAM_TWO, "ok"),
     Source(<<>>, "contact_error"), Source(STREAM_TWO, "iteration_error")}

\* ------------------------------------------------------------------- state
VARIABLES
    request_queue,   \* Queue(): sequence of request ids, head first
    request_status,  \* dict request id -> request record
    status_order,    \* insertion order of request_status's keys
    queue_lock,      \* "free" or the thread that holds the lock
    file,            \* QUEUE_FILE: [state, members]
    worker,          \* the worker thread: position and locals
    handler,         \* request-handling threads inside submit_request: position, locals
    response,        \* the HTTP response in flight to a client
    clock,           \* number of datetime.now() readings so far
    issued,          \* ids uuid4 has returned so far
    crashes,         \* number of restarts so far
    io_errors,       \* number of failed writes of QUEUE_FILE so far
    loaded,          \* what the last startup found: "none", "absent", "corrupt", "valid"
    pre_crash,       \* the finished jobs' records when the process last died
    enqueued,        \* ids put on request_queue in this lifetime, in order
    started,         \* ids marked processing in this lifetime, in order
    call,            \* a call of one of the program's pure functions: arguments, result
    invoked          \* ids the fetch and the mail transport were invoked for, in order, ever

vars == <<request_queue, request_status, status_order, queue_lock, file, worker,
          handler, response, clock, issued, crashes, io_errors, loaded, pre_crash, enqueued, started,
          call, invoked>>

EmptyDict == [x \in {} |-> 0]

\* d[k] = v for a Python dict
Put(d, k, v) == [x \in DOMAIN d \cup {k} |-> IF x = k THEN v ELSE d[x]]

\* the key order of a dict after d[k] = v
PutOrder(order, d, k) == IF k \in DOMAIN d THEN order ELSE Append(order, k)

Range(s) == {s[i] : i \in 1..Len(s)}

\* ------------------------------------------------------------ string tools
UpperChars == <<"A","B","C","D","E","F","G","H","I","J","K","L","M",
                "N","O","P","Q","R","S","T","U","V","W","X","Y","Z">>
LowerChars == <<"a","b","c","d","e","f","g","h","i","j","k","l","m",
                "n","o","p","q","r","s","t","u","v","w","x","y","z">>

LowerChar(c) ==
    IF \E i \in 1..Len(UpperChars) : UpperChars[i] = c
    THEN LowerChars[CHOOSE i \in 1..Len(UpperChars) : UpperChars[i] = c]
    ELSE c

\* str.lower()
Lower(s) == [i \in 1..Len(s) |-> LowerChar(s[i])]

\* Python's  needle in hay  for two strings
Contains(needle, hay) ==
    \E i \in 0..(Len(hay) - Len(needle)) : SubSeq(hay, i + 1, i + Len(needle)) = needle

\* dict.get(k, default)
Get(d, k, default) == IF k \in DOMAIN d THEN d[k] ELSE default

YOUTUBE_WATCH == <<"y","o","u","t","u","b","e",".","c","o","m","/","w","a","t","c","h">>
YOUTU_BE == <<"y","o","u","t","u",".","b","e","/">>
LC_PARAM == <<"&","l","c","=">>

\* -------------------------------------------------------- the durable file
\* mutant: json.dump(..., sort_keys=True): the members are written in key order
JsonDump_SortKeys(order, table) ==
    LET ids == {order[i] : i \in 1..Len(order)}
        nth(k) == CHOOSE id \in ids : Cardinality({other \in ids : other <= id}) = k
    IN [k \in 1..Cardinality(ids) |-> <<nth(k), table[nth(k)]>>]

\* mutant: finished jobs are dropped from the dump
JsonDump_Unfinished(order, table) ==
    LET keep(id) == table[id]["status"] \in {"pending", "processing"}
    IN [i \in 1..Len(SelectSeq(order, keep)) |->
           <<SelectSeq(order, keep)[i], table[SelectSeq(order, keep)[i]]>>]

\* json.dump(request_status): the members of one JSON object, in key order
JsonDump(order, table) == [i \in 1..Len(order) |-> <<order[i], table[order[i]]>>]

NoFile == [state |-> "absent", members |-> <<>>]

\* save_queue_to_file: what QUEUE_FILE holds afterwards.  open(.., 'w') truncates
\* the file, so a write that fails after the open leaves a file json cannot load.
save_queue_to_file(old, order, table, io) ==
    CASE io = "ok" -> [state |-> "valid", members |-> JsonDump(order, table)]
      [] io = "open_error" -> old
      [] io = "write_error" -> [state |-> "corrupt", members |-> <<>>]

IoOutcomes == {"ok", "open_error", "write_error"}

\* load_queue_from_file: the loop over saved_requests.items(); nothing is loaded
\* when the file is missing or json.load raises
LoadedMembers(f) == IF f.state = "valid" THEN f.members ELSE <<>>

RECURSIVE LoadStatus(_, _)
LoadStatus(members, table) ==
    IF members = <<>> THEN table
    ELSE LoadStatus(Tail(members), Put(table, Head(members)[1], Head(members)[2]))

RECURSIVE LoadOrder(_, _, _)
LoadOrder(members, order, table) ==
    IF members = <<>> THEN order
    ELSE LoadOrder(Tail(members), PutOrder(order, table, Head(members)[1]),
                   Put(table, Head(members)[1], Head(members)[2]))

\* mutant: every record of the file is put back on the queue
Requeue_All(req_data) == TRUE

\* mutant: every unfinished request is put back on the queue
Requeue_Unfinished(req_data) == req_data["status"] \in {"pending", "processing"}

\* line 62: only a record whose status is pending goes back on the queue
Requeue(req_data) == req_data["status"] = "pending"

RECURSIVE LoadQueue(_, _)
LoadQueue(members, queue) ==
    IF members = <<>> THEN queue
    ELSE LoadQueue(Tail(members),
                   IF Requeue(Head(members)[2]) THEN Append(queue, Head(members)[1])
                   ELSE queue)

\* ------------------------------------------------------- Timestamp Extractor
DigitChars == <<"0","1","2","3","4","5","6","7","8","9">>

\* \d
IsDigit(c) == \E i \in 1..Len(DigitChars) : DigitChars[i] = c

DigitValue(c) == (CHOOSE i \in 1..Len(DigitChars) : DigitChars[i] = c) - 1

\* \w
IsWordChar(c) ==
    \/ IsDigit(c)
    \/ c = "_"
    \/ \E i \in 1..Len(LowerChars) : LowerChars[i] = c \/ UpperChars[i] = c

\* \b between text[pos] and text[pos + 1]; the ends of the text count as non-word
WordBoundary(text, pos) ==
    (pos >= 1 /\ IsWordChar(text[pos])) # (pos < Len(text) /\ IsWordChar(text[pos + 1]))

\* \d{n} at text[from]
DigitsAt(text, from, n) ==
    /\ from + n - 1 <= Len(text)
    /\ \A k \in from..(from + n - 1) : IsDigit(text[k])

ColonAt(text, pos) == pos <= Len(text) /\ text[pos] = ":"

\* one way of matching TIMESTAMP_PATTERN at text[i]: d leading digits, with or
\* without the :SS group
Attempt(text, i, d, group) ==
    /\ WordBoundary(text, i - 1)
    /\ DigitsAt(text, i, d)
    /\ ColonAt(text, i + d)
    /\ DigitsAt(text, i + d + 1, 2)
    /\ group => ColonAt(text, i + d + 3) /\ DigitsAt(text, i + d + 4, 2)
    /\ WordBoundary(text, IF group THEN i + d + 5 ELSE i + d + 2)

\* the last index of the match of TIMESTAMP_PATTERN that starts at text[i], 0 if
\* there is none; the greedy quantifiers are tried longest first
MatchEnd(text, i) ==
    IF Attempt(text, i, 2, TRUE) THEN i + 7
    ELSE IF Attempt(text, i, 2, FALSE) THEN i + 4
    ELSE IF Attempt(text, i, 1, TRUE) THEN i + 6
    ELSE IF Attempt(text, i, 1, FALSE) THEN i + 3
    ELSE 0

\* TIMESTAMP_PATTERN.findall(text): leftmost, non-overlapping matches from text[i] on
RECURSIVE FindAll(_, _, _)
FindAll(text, i, found) ==
    IF i > Len(text) THEN found
    ELSE IF MatchEnd(text, i) # 0
         THEN FindAll(text, MatchEnd(text, i) + 1,
                      Append(found, SubSeq(text, i, MatchEnd(text, i))))
         ELSE FindAll(text, i + 1, found)

\* ts.split(":")
RECURSIVE Split(_, _, _)
Split(ts, part, parts) ==
    IF ts = <<>> THEN Append(parts, part)
    ELSE IF Head(ts) = ":" THEN Split(Tail(ts), <<>>, Append(parts, part))
    ELSE Split(Tail(ts), Append(part, Head(ts)), parts)

\* int(p) for a string of decimal digits
RECURSIVE ParseInt(_, _)
ParseInt(p, n) == IF p = <<>> THEN n ELSE ParseInt(Tail(p), n * 10 + DigitValue(Head(p)))

\* mutant: a group above 59 is reduced to the range of a minute or second
RECURSIVE SecondsLoop_RangeChecked(_, _)
SecondsLoop_RangeChecked(parts, seconds) ==
    IF parts = <<>> THEN seconds
    ELSE SecondsLoop_RangeChecked(Tail(parts), seconds * 60 + (ParseInt(Head(parts), 0) % 60))

RECURSIVE SecondsLoop(_, _)
SecondsLoop(parts, seconds) ==
    IF parts = <<>> THEN seconds
    ELSE SecondsLoop(Tail(parts), seconds * 60 + ParseInt(Head(parts), 0))

timestamp_to_seconds(ts) == SecondsLoop(Split(ts, <<>>, <<>>), 0)

\* str(n) for n >= 0
RECURSIVE Str(_)
Str(n) == IF n < 10 THEN <<DigitChars[n + 1]>> ELSE Str(n \div 10) \o <<DigitChars[(n % 10) + 1]>>

TimestampLink(video_url, seconds) ==
    video_url \o (IF Contains(<<"?">>, video_url) THEN <<"&">> ELSE <<"?">>)
              \o <<"t", "=">> \o Str(seconds) \o <<"s">>

Timestamp(match, video_url) ==
    [text |-> match,
     seconds |-> timestamp_to_seconds(match),
     link |-> TimestampLink(video_url, timestamp_to_seconds(match))]

extract_timestamps(text, video_url) ==
    [k \in 1..Len(FindAll(text, 1, <<>>)) |-> Timestamp(FindAll(text, 1, <<>>)[k], video_url)]

\* ----------------------------------------------------------- Comment Filter
\* mutant: one phrase is enough (logical OR)
MatchesAll_Any(comment, phrases) ==
    \E i \in 1..Len(phrases.items) :
        Contains(Lower(phrases.items[i]), Lower(Get(comment, "text", <<>>)))

\* all(phrase.lower() in comment_text_lower for phrase in phrases)
MatchesAll(comment, phrases) ==
    \A i \in 1..Len(phrases.items) :
        Contains(Lower(phrases.items[i]), Lower(Get(comment, "text", <<>>)))

CommentLink(video_url, comment) ==
    IF Get(comment, "cid", <<>>) # <<>>
    THEN video_url \o LC_PARAM \o comment["cid"]
    ELSE video_url

Filtered(video_url, comment) ==
    [text |-> Get(comment, "text", <<>>),
     author |-> Get(comment, "author", "Unknown"),
     time |-> Get(comment, "time", "Unknown"),
     likes |-> Get(comment, "votes", 0),
     link |-> CommentLink(video_url, comment),
     timestamps |-> extract_timestamps(Get(comment, "text", <<>>), video_url)]

RECURSIVE FilterLoop(_, _, _, _)
FilterLoop(video_url, phrases, stream, filtered_comments) ==
    IF stream = <<>> THEN filtered_comments
    ELSE FilterLoop(video_url, phrases, Tail(stream),
                    IF MatchesAll(Head(stream), phrases)
                    THEN Append(filtered_comments, Filtered(video_url, Head(stream)))
                    ELSE filtered_comments)

\* mutant: the comments filtered before the source failed are returned
get_filtered_comments_Partial(video_url, phrases, source) ==
    FilterLoop(video_url, phrases, source.stream, <<>>)

\* get_filtered_comments: the except clause turns any error of the source into []
get_filtered_comments(video_url, phrases, source) ==
    IF source.outcome = "ok" THEN FilterLoop(video_url, phrases, source.stream, <<>>)
    ELSE <<>>

\* -------------------------------------------------------------------- mail
MailOutcomes == {"sent", "render_error", "smtp_error"}

\* lines 467-472: the message was rendered, so the SMTP server is contacted
TransportReached(mail) == mail \in {"sent", "smtp_error"}

\* mutant: the except clause reports success
send_email_report_Swallow(to_email, video_url, phrases, comments, mail) == TRUE

\* send_email_report: mail says where (if anywhere) the body of its try raised
send_email_report(to_email, video_url, phrases, comments, mail) == mail = "sent"

\* -------------------------------------------------------------- validation
\* mutant: the check that phrases is not empty is missing
ValidationError_AnyList(data) ==
    IF "video_url" \notin DOMAIN data THEN "Missing required field: video_url"
    ELSE IF "phrases" \notin DOMAIN data THEN "Missing required field: phrases"
    ELSE IF "email" \notin DOMAIN data THEN "Missing required field: email"
    ELSE IF ~Contains(YOUTUBE_WATCH, data["video_url"]) /\ ~Contains(YOUTU_BE, data["video_url"])
         THEN "Invalid YouTube URL"
    ELSE IF data["phrases"].type # "list"
         THEN "Phrases must be a non-empty list"
    ELSE ""

\* submit_request, lines 549-561: the error message, or "" for a valid body
ValidationError(data) ==
    IF "video_url" \notin DOMAIN data THEN "Missing required field: video_url"
    ELSE IF "phrases" \notin DOMAIN data THEN "Missing required field: phrases"
    ELSE IF "email" \notin DOMAIN data THEN "Missing required field: email"
    ELSE IF ~Contains(YOUTUBE_WATCH, data["video_url"]) /\ ~Contains(YOUTU_BE, data["video_url"])
         THEN "Invalid YouTube URL"
    ELSE IF data["phrases"].type # "list" \/ Len(data["phrases"].items) = 0
         THEN "Phrases must be a non-empty list"
    ELSE ""

\* mutant: ids come from a generator that can repeat itself
uuid4_Repeating(used) == Ids

\* uuid.uuid4(): an id never handed out before.  Ids are opaque (the code only
\* compares them), so the least unused one stands for any fresh one.
uuid4(used) ==
    IF Ids \ used = {} THEN {}
    ELSE {CHOOSE id \in Ids \ used : \A other \in Ids \ used : id <= other}

\* ------------------------------------------------------------------- Init
IdleWorker ==
    [pc |-> "idle", request_id |-> 0, comments |-> <<>>, email_sent |-> FALSE,
     e |-> "", source |-> Source(<<>>, "none"), mail |-> "none"]

IdleHandler == [pc |-> "idle", request_id |-> 0, request_data |-> EmptyDict]

\* an HTTP response: kind is the endpoint, code and body are what the client gets;
\* data (the body of the submit request answered) and first_poll (the status call
\* is the one a client makes right after its submit returned) describe the request
Response(kind, code, request_id, body, data, first_poll) ==
    [kind |-> kind, code |-> code, request_id |-> request_id, body |-> body,
     data |-> data, first_poll |-> first_poll]

NoResponse == Response("none", 0, 0, EmptyDict, EmptyDict, FALSE)

\* no function is being called on its own
NoCall == [fn |-> "none"]

\* neither collaborator has been invoked for any job
NoInvocations == [fetch |-> <<>>, send |-> <<>>]

\* the program's globals and threads when the process has started (lines 47-50)
Started ==
    /\ request_queue = <<>>
    /\ request_status = EmptyDict
    /\ status_order = <<>>
    /\ queue_lock = "free"
    /\ file = NoFile
    /\ worker = IdleWorker
    /\ handler = [h \in Handlers |-> IdleHandler]
    /\ response = NoResponse
    /\ clock = 0
    /\ issued = {}
    /\ crashes = 0
    /\ io_errors = 0
    /\ loaded = "none"
    /\ pre_crash = EmptyDict
    /\ enqueued = <<>>
    /\ started = <<>>
    /\ invoked = NoInvocations

Init == Started /\ call = NoCall

\* no response is on its way out: the response of a request is written to its
\* connection as the last step of the request and is no state of the program, so
\* no other step is interleaved with it
Quiet == response = NoResponse

\* a write of QUEUE_FILE: io is its outcome
IoPossible(io) == io = "ok" \/ io_errors < MaxIoErrors
IoCount(io) == IF io = "ok" THEN io_errors ELSE io_errors + 1

\* --------------------------------------------------------- request handlers
\* submit_request, lines 566-573: the record of a new request
NewRequest(data, now) ==
    [video_url |-> data["video_url"], phrases |-> data["phrases"], email |-> data["email"],
     status |-> "pending", submission_time |-> now]

\* the fields of the request body that went into a record
SubmittedData(request_data) ==
    [k \in {"video_url", "phrases", "email"} |-> request_data[k]]

\* submit_request, lines 547-561: a body that fails validation is answered 400
SubmitReject(h, data) ==
    /\ Quiet
    /\ handler[h].pc = "idle"
    /\ ValidationError(data) # ""
    /\ response' = Response("submit", 400, 0, [error |-> ValidationError(data)], data, FALSE)
    /\ UNCHANGED <<call, invoked, request_queue, request_status, status_order, queue_lock, file, worker,
                   handler, clock, issued, crashes, io_errors, loaded, pre_crash, enqueued,
                   started>>

\* submit_request, lines 547-573: a valid body gets an id and a record
SubmitAccept(h, data) ==
    /\ Quiet
    /\ handler[h].pc = "idle"
    /\ ValidationError(data) = ""
    /\ \E id \in uuid4(issued) :
          /\ issued' = issued \cup {id}
          /\ handler' = [handler EXCEPT ![h] =
                            [pc |-> "lock", request_id |-> id,
                             request_data |-> NewRequest(data, clock)]]
    /\ clock' = clock + 1
    /\ response' = NoResponse
    /\ UNCHANGED <<call, invoked, request_queue, request_status, status_order, queue_lock, file, worker,
                   crashes, io_errors, loaded, pre_crash, enqueued, started>>

\* lines 576-577: take queue_lock, request_status[request_id] = request_data
SubmitInsert(h) ==
    /\ Quiet
    /\ handler[h].pc = "lock"
    /\ queue_lock = "free"
    /\ queue_lock' = h
    /\ request_status' = Put(request_status, handler[h].request_id, handler[h].request_data)
    /\ status_order' = PutOrder(status_order, request_status, handler[h].request_id)
    /\ handler' = [handler EXCEPT ![h].pc = "put"]
    /\ response' = NoResponse
    /\ UNCHANGED <<call, invoked, request_queue, file, worker, clock, issued, crashes, io_errors, loaded,
                   pre_crash, enqueued, started>>

\* mutant: the record is stored in the table but not put on the queue
SubmitPut_Skip(h) ==
    /\ Quiet
    /\ handler[h].pc = "put"
    /\ handler' = [handler EXCEPT ![h].pc = "save"]
    /\ response' = NoResponse
    /\ UNCHANGED <<call, invoked, request_queue, enqueued, request_status, status_order, queue_lock,
                   file, worker, clock, issued, crashes, io_errors, loaded, pre_crash, started>>

\* line 578: request_queue.put((request_id, request_data))
SubmitPut(h) ==
    /\ Quiet
    /\ handler[h].pc = "put"
    /\ request_queue' = Append(request_queue, handler[h].request_id)
    /\ enqueued' = Append(enqueued, handler[h].request_id)
    /\ handler' = [handler EXCEPT ![h].pc = "save"]
    /\ response' = NoResponse
    /\ UNCHANGED <<call, invoked, request_status, status_order, queue_lock, file, worker, clock, issued,
                   crashes, io_errors, loaded, pre_crash, started>>

\* lines 579-587: save_queue_to_file(), release queue_lock, answer 200
SubmitSave(h, io) ==
    /\ Quiet
    /\ handler[h].pc = "save"
    /\ IoPossible(io)
    /\ io_errors' = IoCount(io)
    /\ file' = save_queue_to_file(file, status_order, request_status, io)
    /\ queue_lock' = "free"
    /\ response' = Response("submit", 200, handler[h].request_id,
                            [status |-> "pending",
                             message |-> "Request submitted successfully"],
                            SubmittedData(handler[h].request_data), FALSE)
    /\ handler' = [handler EXCEPT ![h].pc = "returned"]
    /\ UNCHANGED <<call, invoked, request_queue, request_status, status_order, worker, clock, issued,
                   crashes, loaded, pre_crash, enqueued, started>>

\* check_status: reads request_status without taking queue_lock
check_status(request_id, first_poll) ==
    IF request_id \in DOMAIN request_status
    THEN Response("status", 200, request_id, request_status[request_id], EmptyDict, first_poll)
    ELSE Response("status", 404, request_id, [error |-> "Request not found"], EmptyDict,
                  first_poll)

\* a client asks for the status of any id
CheckStatus(request_id) ==
    /\ Quiet
    /\ response' = check_status(request_id, FALSE)
    /\ UNCHANGED <<call, invoked, request_queue, request_status, status_order, queue_lock, file, worker,
                   handler, clock, issued, crashes, io_errors, loaded, pre_crash, enqueued,
                   started>>

\* the client whose submit has just returned asks for the status of its request_id
PollAfterSubmit(h) ==
    /\ Quiet
    /\ handler[h].pc = "returned"
    /\ response' = check_status(handler[h].request_id, TRUE)
    /\ handler' = [handler EXCEPT ![h] = IdleHandler]
    /\ UNCHANGED <<call, invoked, request_queue, request_status, status_order, queue_lock, file, worker,
                   clock, issued, crashes, io_errors, loaded, pre_crash, enqueued, started>>

\* ------------------------------------------------------ worker: process_queue
\* the record the worker works on: request_data of the dequeued tuple is the very
\* object stored in request_status[request_id] (lines 577-578, 63-64)
Current == request_status[worker.request_id]

\* mutant: every write to the record also stamps it with the current time
Update_Restamp(field, value) ==
    [request_status EXCEPT
        ![worker.request_id] = Put(Put(@, field, value), "submission_time", clock)]

\* request_status[request_id][field] = value
Update(field, value) ==
    [request_status EXCEPT ![worker.request_id] = Put(@, field, value)]

\* mutant: the head is read but stays on the queue
QueueGet_Peek(queue) == [item |-> Head(queue), rest |-> queue]

\* mutant: the newest item is taken
QueueGet_Lifo(queue) ==
    [item |-> queue[Len(queue)], rest |-> SubSeq(queue, 1, Len(queue) - 1)]

\* Queue.get(): the item at the head, and the queue without it
QueueGet(queue) == [item |-> Head(queue), rest |-> Tail(queue)]

\* lines 484-485: request_queue.empty() is read and get() is called without queue_lock
Dequeue ==
    /\ Quiet
    /\ worker.pc = "idle"
    /\ request_queue # <<>>
    /\ worker' = [IdleWorker EXCEPT !.pc = "mark_processing",
                                    !.request_id = QueueGet(request_queue).item]
    /\ request_queue' = QueueGet(request_queue).rest
    /\ response' = NoResponse
    /\ UNCHANGED <<call, invoked, request_status, status_order, queue_lock, file, handler, clock, issued,
                   crashes, io_errors, loaded, pre_crash, enqueued, started>>

\* lines 491-492
MarkProcessing ==
    /\ Quiet
    /\ worker.pc = "mark_processing"
    /\ queue_lock = "free"
    /\ queue_lock' = "worker"
    /\ request_status' = Update("status", "processing")
    /\ started' = Append(started, worker.request_id)
    /\ worker' = [worker EXCEPT !.pc = "save_processing"]
    /\ response' = NoResponse
    /\ UNCHANGED <<call, invoked, request_queue, status_order, file, handler, clock, issued, crashes,
                   io_errors, loaded, pre_crash, enqueued>>

\* mutant: the status processing is not written to the file before the fetch
SaveProcessing_NoSave(io) ==
    /\ Quiet
    /\ worker.pc = "save_processing"
    /\ io = "ok"
    /\ queue_lock' = "free"
    /\ worker' = [worker EXCEPT !.pc = "fetch"]
    /\ response' = NoResponse
    /\ UNCHANGED <<call, invoked, request_queue, request_status, status_order, file, handler,
                   clock, issued, crashes, io_errors, loaded, pre_crash, enqueued, started>>

\* mutant: the fetch and the send are inside the with block of line 491, so the lock
\* is still held after the save
SaveProcessing_KeepLock(io) ==
    /\ Quiet
    /\ worker.pc = "save_processing"
    /\ IoPossible(io)
    /\ io_errors' = IoCount(io)
    /\ file' = save_queue_to_file(file, status_order, request_status, io)
    /\ worker' = [worker EXCEPT !.pc = "fetch"]
    /\ response' = NoResponse
    /\ UNCHANGED <<call, invoked, request_queue, request_status, status_order, queue_lock, handler,
                   clock, issued, crashes, loaded, pre_crash, enqueued, started>>

\* line 493 and the end of the with block
SaveProcessing(io) ==
    /\ Quiet
    /\ worker.pc = "save_processing"
    /\ IoPossible(io)
    /\ io_errors' = IoCount(io)
    /\ file' = save_queue_to_file(file, status_order, request_status, io)
    /\ queue_lock' = "free"
    /\ worker' = [worker EXCEPT !.pc = "fetch"]
    /\ response' = NoResponse
    /\ UNCHANGED <<call, invoked, request_queue, request_status, status_order, handler, clock, issued,
                   crashes, loaded, pre_crash, enqueued, started>>

\* lines 495-501
FetchComments(source) ==
    /\ Quiet
    /\ worker.pc = "fetch"
    /\ worker' = [worker EXCEPT
                    !.pc = "send", !.source = source,
                    !.comments = get_filtered_comments(Current["video_url"],
                                                       Current["phrases"], source)]
    /\ invoked' = [invoked EXCEPT !.fetch = Append(@, worker.request_id)]
    /\ response' = NoResponse
    /\ UNCHANGED <<call, request_queue, request_status, status_order, queue_lock, file, handler,
                   clock, issued, crashes, io_errors, loaded, pre_crash, enqueued, started>>

\* lines 503-511
SendReport(mail) ==
    /\ Quiet
    /\ worker.pc = "send"
    /\ worker' = [worker EXCEPT
                    !.pc = "mark_completed", !.mail = mail,
                    !.email_sent = send_email_report(Current["email"], Current["video_url"],
                                                     Current["phrases"], worker.comments, mail)]
    /\ invoked' = [invoked EXCEPT !.send = IF TransportReached(mail)
                                           THEN Append(@, worker.request_id) ELSE @]
    /\ response' = NoResponse
    /\ UNCHANGED <<call, request_queue, request_status, status_order, queue_lock, file, handler,
                   clock, issued, crashes, io_errors, loaded, pre_crash, enqueued, started>>

UNEXPECTED == "unexpected error"

\* mutant: no except clause around the job; the exception reaches the handler of
\* the loop (lines 539-541), which only logs and sleeps
Raise_ToLoop ==
    /\ Quiet
    /\ worker.pc \in {"fetch", "send"}
    /\ worker' = IdleWorker
    /\ response' = NoResponse
    /\ UNCHANGED <<call, invoked, request_queue, request_status, status_order, queue_lock, file, handler,
                   clock, issued, crashes, io_errors, loaded, pre_crash, enqueued, started>>

\* lines 525-526: an exception that neither get_filtered_comments nor
\* send_email_report caught leaves the try block while the job is being processed
Raise ==
    /\ Quiet
    /\ worker.pc \in {"fetch", "send"}
    /\ worker' = [worker EXCEPT !.pc = "mark_failed", !.e = UNEXPECTED]
    /\ response' = NoResponse
    /\ UNCHANGED <<call, invoked, request_queue, request_status, status_order, queue_lock, file, handler,
                   clock, issued, crashes, io_errors, loaded, pre_crash, enqueued, started>>

\* lines 514-515
MarkCompleted ==
    /\ Quiet
    /\ worker.pc = "mark_completed"
    /\ queue_lock = "free"
    /\ queue_lock' = "worker"
    /\ request_status' = Update("status", "completed")
    /\ worker' = [worker EXCEPT !.pc = "set_completion_time"]
    /\ response' = NoResponse
    /\ UNCHANGED <<call, invoked, request_queue, status_order, file, handler, clock, issued, crashes,
                   io_errors, loaded, pre_crash, enqueued, started>>

\* line 516
SetCompletionTime ==
    /\ Quiet
    /\ worker.pc = "set_completion_time"
    /\ request_status' = Update("completion_time", clock)
    /\ clock' = clock + 1
    /\ worker' = [worker EXCEPT !.pc = "set_result"]
    /\ response' = NoResponse
    /\ UNCHANGED <<call, invoked, request_queue, status_order, queue_lock, file, handler, issued, crashes,
                   io_errors, loaded, pre_crash, enqueued, started>>

\* lines 517-520
JobResult(comments, email_sent) ==
    [comment_count |-> Len(comments), email_sent |-> email_sent]

SetResult ==
    /\ Quiet
    /\ worker.pc = "set_result"
    /\ request_status' = Update("result", JobResult(worker.comments, worker.email_sent))
    /\ worker' = [worker EXCEPT !.pc = "save_completed"]
    /\ response' = NoResponse
    /\ UNCHANGED <<call, invoked, request_queue, status_order, queue_lock, file, handler, clock, issued,
                   crashes, io_errors, loaded, pre_crash, enqueued, started>>

\* mutant: the except clause only logs; the status is left as it is
MarkFailed_LogOnly ==
    /\ Quiet
    /\ worker.pc = "mark_failed"
    /\ queue_lock = "free"
    /\ queue_lock' = "worker"
    /\ worker' = [worker EXCEPT !.pc = "set_error"]
    /\ response' = NoResponse
    /\ UNCHANGED <<call, invoked, request_queue, request_status, status_order, file, handler, clock, issued,
                   crashes, io_errors, loaded, pre_crash, enqueued, started>>

\* lines 529-530
MarkFailed ==
    /\ Quiet
    /\ worker.pc = "mark_failed"
    /\ queue_lock = "free"
    /\ queue_lock' = "worker"
    /\ request_status' = Update("status", "failed")
    /\ worker' = [worker EXCEPT !.pc = "set_error"]
    /\ response' = NoResponse
    /\ UNCHANGED <<call, invoked, request_queue, status_order, file, handler, clock, issued, crashes,
                   io_errors, loaded, pre_crash, enqueued, started>>

\* line 531
SetError ==
    /\ Quiet
    /\ worker.pc = "set_error"
    /\ request_status' = Update("error", worker.e)
    /\ worker' = [worker EXCEPT !.pc = "save_failed"]
    /\ response' = NoResponse
    /\ UNCHANGED <<call, invoked, request_queue, status_order, queue_lock, file, handler, clock, issued,
                   crashes, io_errors, loaded, pre_crash, enqueued, started>>

\* lines 521 and 532, the end of the with block, and task_done() on line 535
SaveFinal(io) ==
    /\ Quiet
    /\ worker.pc \in {"save_completed", "save_failed"}
    /\ IoPossible(io)
    /\ io_errors' = IoCount(io)
    /\ file' = save_queue_to_file(file, status_order, request_status, io)
    /\ queue_lock' = "free"
    /\ worker' = IdleWorker
    /\ response' = NoResponse
    /\ UNCHANGED <<call, invoked, request_queue, request_status, status_order, handler, clock, issued,
                   crashes, loaded, pre_crash, enqueued, started>>

\* ------------------------------------------------------- crash and restart
Terminal == {"completed", "failed"}

\* the records whose mark_completed or mark_failed has run to the end of its with
\* block (status, result or error, and the save)
FinishedJobs ==
    LET busy == IF worker.pc \in {"set_completion_time", "set_result", "save_completed",
                                  "set_error", "save_failed"}
                THEN {worker.request_id} ELSE {}
        done == {id \in DOMAIN request_status \ busy :
                    request_status[id]["status"] \in Terminal}
    IN [id \in done |-> request_status[id]]

\* The process dies at any point (memory is lost, QUEUE_FILE stays) and is started
\* again: lines 643-647, load_queue_from_file() runs before the worker thread and
\* the HTTP server start.
Restart ==
    /\ Quiet
    /\ crashes < MaxCrashes
    /\ crashes' = crashes + 1
    /\ pre_crash' = FinishedJobs
    /\ loaded' = file.state
    /\ request_status' = LoadStatus(LoadedMembers(file), EmptyDict)
    /\ status_order' = LoadOrder(LoadedMembers(file), <<>>, EmptyDict)
    /\ request_queue' = LoadQueue(LoadedMembers(file), <<>>)
    /\ enqueued' = LoadQueue(LoadedMembers(file), <<>>)
    /\ started' = <<>>
    /\ queue_lock' = "free"
    /\ worker' = IdleWorker
    /\ handler' = [h \in Handlers |-> IdleHandler]
    /\ response' = NoResponse
    /\ UNCHANGED <<call, invoked, file, clock, issued, io_errors>>

\* ------------------------------------------------------------------- Next
HandlerStep(h, ios) ==
    \/ \E data \in Bodies : SubmitReject(h, data)
    \/ \E data \in Bodies : SubmitAccept(h, data)
    \/ SubmitInsert(h)
    \/ SubmitPut(h)
    \/ \E io \in ios : SubmitSave(h, io)
    \/ PollAfterSubmit(h)

WorkerStep(ios) ==
    \/ Dequeue
    \/ MarkProcessing
    \/ \E io \in ios : SaveProcessing(io)
    \/ \E source \in SourceBehaviours : FetchComments(source)
    \/ \E mail \in MailOutcomes : SendReport(mail)
    \/ Raise
    \/ MarkCompleted
    \/ SetCompletionTime
    \/ SetResult
    \/ MarkFailed
    \/ SetError
    \/ \E io \in ios : SaveFinal(io)

\* the response leaves the process
Deliver ==
    /\ response # NoResponse
    /\ response' = NoResponse
    /\ UNCHANGED <<call, invoked, request_queue, request_status, status_order, queue_lock, file, worker,
                   handler, clock, issued, crashes, io_errors, loaded, pre_crash, enqueued,
                   started>>

Running(ios) ==
    \/ \E h \in Handlers : HandlerStep(h, ios)
    \/ \E request_id \in Ids : CheckStatus(request_id)
    \/ WorkerStep(ios)
    \/ Deliver

\* every write of QUEUE_FILE succeeds
Next == Running({"ok"}) \/ Restart

Spec == Init /\ [][Next]_vars

\* writes of QUEUE_FILE may fail
FaultyNext == Running(IoOutcomes) \/ Restart

FaultySpec == Init /\ [][FaultyNext]_vars

\* No crash; the worker thread and every thread inside submit_request keep being
\* scheduled, and the calls they make return.  A thread's step waits while a
\* response is on its way out (Quiet), which other requests make true and false
\* again and again, so the fairness of the threads is strong fairness.
LiveNext == Running({"ok"})

LiveSpec ==
    /\ Init
    /\ [][LiveNext]_vars
    /\ SF_vars(WorkerStep({"ok"}))
    /\ \A h \in Handlers : SF_vars(SubmitInsert(h) \/ SubmitPut(h) \/ SubmitSave(h, "ok"))
    /\ WF_vars(Deliver)

\* ------------------------------------------- the pure functions on their own
\* everything but call
program == <<request_queue, request_status, status_order, queue_lock, file, worker, handler,
             response, clock, issued, crashes, io_errors, loaded, pre_crash, enqueued, started,
             invoked>>

RECURSIVE Join(_)
Join(pieces) == IF pieces = <<>> THEN <<>> ELSE Head(pieces) \o Join(Tail(pieces))

\* texts for extract_timestamps: up to MaxTokens pieces put one after the other
TextTokens ==
    { <<"1">>, <<"1","2">>, <<":">>, <<"0","5">>, <<"9","9">>, <<" ">>, <<"a">>,
      <<"1",":","2","3"," ">> }

Texts == {Join(pieces) : pieces \in UNION {[1..k -> TextTokens] : k \in 0..MaxTokens}}

ExtractCalls ==
    {[fn |-> "extract_timestamps", text |-> text, video_url |-> video_url,
      done |-> FALSE, result |-> <<>>] :
        text \in Texts, video_url \in {URL_WATCH, URL_SHORT}}

\* comments, streams and phrase lists for get_filtered_comments
CommentTexts == UNION {[1..k -> {"a", "B", "b"}] : k \in 0..MaxTextLen}

Comments ==
    {Comment(text, <<"c","1">>) : text \in CommentTexts}
    \cup {Comment(<<"a","b">>, <<>>), [cid |-> <<"c","2">>]}

Streams == UNION {[1..k -> Comments] : k \in 0..MaxStream}

PhraseTexts == UNION {[1..k -> {"a", "A", "b"}] : k \in 0..2}

PhraseLists == UNION {[1..k -> PhraseTexts] : k \in 1..MaxPhrases}

FilterCalls ==
    {[fn |-> "get_filtered_comments", video_url |-> video_url, phrases |-> JsonList(phrases),
      source |-> Source(stream, "ok"), done |-> FALSE, result |-> <<>>] :
        video_url \in {URL_WATCH, URL_SHORT}, phrases \in PhraseLists, stream \in Streams}

FunctionInit == Started /\ call \in ExtractCalls \cup FilterCalls

ExtractTimestamps ==
    /\ call.fn = "extract_timestamps"
    /\ ~call.done
    /\ call' = [call EXCEPT !.done = TRUE,
                            !.result = extract_timestamps(call.text, call.video_url)]
    /\ UNCHANGED program

GetFilteredComments ==
    /\ call.fn = "get_filtered_comments"
    /\ ~call.done
    /\ call' = [call EXCEPT !.done = TRUE,
                            !.result = get_filtered_comments(call.video_url, call.phrases,
                                                             call.source)]
    /\ UNCHANGED program

FunctionNext == ExtractTimestamps \/ GetFilteredComments

FunctionSpec == FunctionInit /\ [][FunctionNext]_vars

\* ================================================================== claims
StatusOf(id) == request_status[id]["status"]

Known == DOMAIN request_status

\* C1: within one process lifetime a job's status changes only pending -> processing,
\* processing -> completed or processing -> failed; a completed or failed job never
\* changes status again.
Transitions ==
    {<<"pending", "processing">>, <<"processing", "completed">>, <<"processing", "failed">>}

C1_StatusMonotonic ==
    [][crashes' = crashes =>
        \A id \in Known \cap DOMAIN request_status' :
            \/ request_status'[id]["status"] = StatusOf(id)
            \/ <<StatusOf(id), request_status'[id]["status"]>> \in Transitions]_vars

\* one job has failed and a later one has completed in the same lifetime
C1_Witness ==
    /\ crashes = 0
    /\ Len(started) = 2
    /\ StatusOf(started[1]) = "failed"
    /\ StatusOf(started[2]) = "completed"

\* C2: at any instant, also across crash/restarts, at most one record of the status
\* table has status processing.
C2_AtMostOneProcessing ==
    Cardinality({id \in Known : StatusOf(id) = "processing"}) <= 1

\* C3: with the worker scheduled, every call returning and no crash, every job that
\* submit accepted eventually has status completed or failed.
C3_EventuallyTerminal ==
    \A id \in Ids : (id \in Known) ~> (id \in Known /\ StatusOf(id) \in Terminal)

\* a job has completed after the job queued before it failed
C3_Witness ==
    /\ Len(enqueued) = 2
    /\ StatusOf(enqueued[1]) = "failed"
    /\ StatusOf(enqueued[2]) = "completed"
    /\ worker.pc = "idle"

\* C4: within one lifetime jobs are marked processing in the order they were put on
\* the queue, and a job is not marked processing before every job enqueued before it
\* is completed or failed.
C4_Fifo ==
    /\ Len(started) <= Len(enqueued)
    /\ started = SubSeq(enqueued, 1, Len(started))
    /\ \A i \in 1..(Len(started) - 1) : StatusOf(started[i]) \in Terminal

\* two submissions ran concurrently; the one that got its id last took the lock
\* first, and both were started
C4_Witness ==
    /\ enqueued = <<2, 1>>
    /\ started = <<2, 1>>

\* C5 (as stated): submit returns an id that is not yet in the status table, and the
\* status call a client makes right after submit returned reports pending.
FreshId ==
    \A h \in Handlers :
        (handler[h].pc = "lock" /\ handler'[h].pc = "put") => handler[h].request_id \notin Known

C5_ImmediatelyPending ==
    [][/\ FreshId
       /\ response'.first_poll =>
             /\ response'.code = 200
             /\ response'.body["status"] = "pending"]_vars

\* C5 (amended): submit returns an id that is not yet in the status table, and the
\* status call a client makes right after submit returned finds the record; it
\* reports pending exactly if the worker has not yet marked the job processing, and
\* processing, completed or failed otherwise.
C5_ImmediatelyKnown ==
    [][/\ FreshId
       /\ response'.first_poll =>
             /\ response'.code = 200
             /\ response'.body["status"] = "pending" <=> response'.request_id \notin Range(started)
             /\ response'.body["status"] \in {"pending", "processing"} \cup Terminal]_vars

\* the first status call after submit finds the job already completed
C5_Witness ==
    /\ response.first_poll
    /\ response.code = 200
    /\ response.body["status"] = "completed"

\* C6: a submit whose body lacks video_url, phrases or email, or whose video_url
\* contains neither 'youtube.com/watch' nor 'youtu.be/', or whose phrases is not a
\* non-empty list, is answered 400, and the status table, the queue and the file are
\* left as they were.
IsWatchOrShortUrl(url) ==
    \E i \in 1..Len(url) :
        \/ i + Len(YOUTUBE_WATCH) - 1 <= Len(url)
           /\ \A k \in 1..Len(YOUTUBE_WATCH) : url[i + k - 1] = YOUTUBE_WATCH[k]
        \/ i + Len(YOUTU_BE) - 1 <= Len(url)
           /\ \A k \in 1..Len(YOUTU_BE) : url[i + k - 1] = YOUTU_BE[k]

Malformed(data) ==
    \/ {"video_url", "phrases", "email"} \ DOMAIN data # {}
    \/ ~IsWatchOrShortUrl(data["video_url"])
    \/ data["phrases"].type # "list"
    \/ data["phrases"].items = <<>>

C6_InvalidRejected ==
    [][(response'.kind = "submit" /\ Malformed(response'.data)) =>
          /\ response'.code = 400
          /\ UNCHANGED <<request_status, status_order, request_queue, file>>]_vars

\* a body without email is answered 400 while jobs exist
C6_Witness ==
    /\ response.kind = "submit"
    /\ response.code = 400
    /\ "email" \notin DOMAIN response.data
    /\ request_queue # <<>>
    /\ file.state = "valid"

\* C7: on startup with a durable file, every record of the file is in the status
\* table whatever its status, and the queue holds exactly the records whose status is
\* pending, each once.
FileIds == {file.members[i][1] : i \in 1..Len(file.members)}

C7_Rehydration ==
    [][(crashes' = crashes + 1 /\ file.state = "valid") =>
          /\ DOMAIN request_status' = FileIds
          /\ \A i \in 1..Len(file.members) :
                request_status'[file.members[i][1]] = file.members[i][2]
          /\ Range(request_queue') =
                {file.members[i][1] : i \in {k \in 1..Len(file.members) :
                                                file.members[k][2]["status"] = "pending"}}
          /\ Len(request_queue') = Cardinality(Range(request_queue'))]_vars

\* after a restart nothing has run yet: one job of the file is back on the queue,
\* another one, which was being processed, is only in the table
C7_Witness ==
    /\ crashes = 1
    /\ loaded = "valid"
    /\ started = <<>>
    /\ Len(request_queue) = 1
    /\ \E id \in Known : StatusOf(id) = "processing"

\* C8: a job that was completed or failed before a crash has, after a restart that
\* loaded a valid file, the same status, result and error as before, and keeps them.
C8_TerminalRoundTrip ==
    loaded = "valid" =>
        \A id \in DOMAIN pre_crash :
            /\ check_status(id, FALSE).code = 200
            /\ check_status(id, FALSE).body = pre_crash[id]

\* C9: when the mail transport fails, the job ends completed with email_sent = false
\* and comment_count = the number of matching comments; it does not end failed.
CompletedPath == {"mark_completed", "set_completion_time", "set_result", "save_completed"}

Matching(source, phrases) ==
    IF source.outcome = "ok"
    THEN Cardinality({i \in 1..Len(source.stream) : MatchesAll(source.stream[i], phrases)})
    ELSE 0

C9_MailFailureCompletes ==
    worker.mail = "smtp_error" =>
        /\ worker.pc \in CompletedPath
        /\ worker.pc = "save_completed" =>
              /\ Current["status"] = "completed"
              /\ "error" \notin DOMAIN Current
              /\ Current["result"].email_sent = FALSE
              /\ Current["result"].comment_count = Matching(worker.source, Current["phrases"])

\* two comments matched, the transport failed, the result is written
C9_Witness ==
    /\ worker.pc = "save_completed"
    /\ worker.mail = "smtp_error"
    /\ Current["result"].comment_count = 2

\* C10: when the comment source fails while being contacted or iterated, the fetch
\* returns no comment, and the job ends completed with comment_count = 0 as if
\* nothing had matched; the source's failure does not make it end failed.
SourceFailed == worker.source.outcome \in {"contact_error", "iteration_error"}

C10_FetchFailureCompletes ==
    SourceFailed =>
        /\ worker.comments = <<>>
        /\ worker.e = "" => worker.pc \in {"send"} \cup CompletedPath
        /\ worker.pc = "save_completed" =>
              /\ Current["status"] = "completed"
              /\ "error" \notin DOMAIN Current
              /\ Current["result"].comment_count = 0
              /\ Current["result"] = JobResult(<<>>, worker.email_sent)

\* the source failed after yielding comments that match; the result is written
C10_Witness ==
    /\ worker.pc = "save_completed"
    /\ worker.source = Source(STREAM_TWO, "iteration_error")
    /\ Matching(Source(STREAM_TWO, "ok"), Current["phrases"]) = 2
    /\ Current["result"].comment_count = 0

\* C11: an exception that escapes the per-job sequence of a dequeued job is caught:
\* the job gets status failed and error = the exception's message and keeps them; it
\* is not left in pending or processing.
C11_EscapedExceptionFails ==
    \A id \in Ids :
        (worker.request_id = id /\ worker.e # "") ~>
            [](/\ id \in Known
               /\ StatusOf(id) = "failed"
               /\ "error" \in DOMAIN request_status[id]
               /\ request_status[id]["error"] = UNEXPECTED)

\* the fetch returned two comments, the send step raised, and the except clause has
\* run up to its save
C11_Witness ==
    /\ worker.pc = "save_failed"
    /\ worker.e = UNEXPECTED
    /\ Len(worker.comments) = 2
    /\ Current["status"] = "failed"
    /\ Current["error"] = UNEXPECTED

\* C12: a job whose report-rendering step raises an exception ends in status failed.
C12_RenderFailureFails ==
    [][(/\ worker.mail = "render_error"
        /\ worker'.pc = "idle"
        /\ crashes' = crashes) =>
            request_status'[worker.request_id]["status"] = "failed"]_vars

\* the status table a reader of QUEUE_FILE gets
FileTable == LoadStatus(LoadedMembers(file), EmptyDict)

\* C13: the status a status call returns for a job has already been written to the
\* durable file; a status changed in memory but not yet saved is never returned.
C13_PollSeesPersisted ==
    [][(response'.kind = "status" /\ response'.code = 200) =>
          /\ response'.request_id \in DOMAIN FileTable
          /\ FileTable[response'.request_id]["status"] = response'.body["status"]]_vars

\* C14 (as stated): whenever no thread holds queue_lock, the durable file holds
\* exactly the records of the in-memory status table.
FileIsTable ==
    /\ FileTable = request_status
    /\ Known # {} => file.state = "valid"

DigitSet == {"0", "1", "2", "3", "4", "5", "6", "7", "8", "9"}

DigitOf ==
    "0" :> 0 @@ "1" :> 1 @@ "2" :> 2 @@ "3" :> 3 @@ "4" :> 4 @@
    "5" :> 5 @@ "6" :> 6 @@ "7" :> 7 @@ "8" :> 8 @@ "9" :> 9

WordSet == DigitSet \cup Range(UpperChars) \cup Range(LowerChars) \cup {"_"}

\* s is one or two digits followed by one or two groups of ':' and two digits
TimestampShape(s) ==
    \E d \in {1, 2}, g \in {1, 2} :
        /\ Len(s) = d + 3 * g
        /\ \A k \in 1..Len(s) :
              IF k > d /\ (k - d - 1) % 3 = 0 THEN s[k] = ":" ELSE s[k] \in DigitSet

\* text[i..j] is a timestamp that is not glued to a word character on either side
IsTimestampAt(text, i, j) ==
    /\ i <= j
    /\ TimestampShape(SubSeq(text, i, j))
    /\ i = 1 \/ text[i - 1] \notin WordSet
    /\ j = Len(text) \/ text[j + 1] \notin WordSet

\* the timestamps of text from position from on: the leftmost one, at its longest,
\* then those after it
RECURSIVE TimestampsFrom(_, _)
TimestampsFrom(text, from) ==
    LET found == {ij \in (from..Len(text)) \X (from..Len(text)) :
                     IsTimestampAt(text, ij[1], ij[2])}
    IN IF found = {} THEN <<>>
       ELSE LET i == CHOOSE i \in {ij[1] : ij \in found} :
                        \A ij \in found : i <= ij[1]
                j == CHOOSE j \in {ij[2] : ij \in {x \in found : x[1] = i}} :
                        \A ij \in found : ij[1] = i => ij[2] <= j
            IN << <<i, j>> >> \o TimestampsFrom(text, j + 1)

RECURSIVE DecimalValue(_)
DecimalValue(digits) ==
    IF digits = <<>> THEN 0
    ELSE DecimalValue(SubSeq(digits, 1, Len(digits) - 1)) * 10 + DigitOf[digits[Len(digits)]]

\* a timestamp read as hours:minutes:seconds or minutes:seconds
Base60(s) ==
    LET d == CHOOSE d \in {1, 2} : s[d + 1] = ":"
        first == DecimalValue(SubSeq(s, 1, d))
        second == DecimalValue(SubSeq(s, d + 2, d + 3))
    IN IF Len(s) = d + 3 THEN first * 60 + second
       ELSE (first * 60 + second) * 60 + DecimalValue(SubSeq(s, d + 5, d + 6))

\* link is url, '&' or '?', 't=', seconds in decimal notation, 's'
IsTimestampLink(link, url, seconds) ==
    LET sep == IF "?" \in Range(url) THEN "&" ELSE "?"
        digits == SubSeq(link, Len(url) + 4, Len(link) - 1)
    IN /\ Len(link) >= Len(url) + 5
       /\ SubSeq(link, 1, Len(url) + 3) = url \o <<sep, "t", "=">>
       /\ link[Len(link)] = "s"
       /\ \A k \in 1..Len(digits) : digits[k] \in DigitSet
       /\ Len(digits) = 1 \/ digits[1] # "0"
       /\ DecimalValue(digits) = seconds

C15_ExtractTimestamps ==
    (call.fn = "extract_timestamps" /\ call.done) =>
        LET matches == TimestampsFrom(call.text, 1)
        IN /\ Len(call.result) = Len(matches)
           /\ \A k \in 1..Len(matches) :
                 LET match == SubSeq(call.text, matches[k][1], matches[k][2])
                 IN /\ DOMAIN call.result[k] = {"text", "seconds", "link"}
                    /\ call.result[k].text = match
                    /\ call.result[k].seconds = Base60(match)
                    /\ IsTimestampLink(call.result[k].link, call.video_url, Base60(match))

\* '1:23 1:99' with a URL that has no '?': 83 and 159 seconds, links with '?t='
C15_Witness ==
    /\ call.fn = "extract_timestamps"
    /\ call.done
    /\ call.text = <<"1", ":", "2", "3", " ", "1", ":", "9", "9">>
    /\ call.video_url = URL_SHORT
    /\ Len(call.result) = 2
    /\ call.result[1].seconds = 83
    /\ call.result[2].seconds = 159
    /\ call.result[2].link = URL_SHORT \o <<"?", "t", "=", "1", "5", "9", "s">>

\* C16: for every sequence of comments the source returns and every non-empty phrase
\* list, the result of get_filtered_comments holds a comment if and only if every
\* phrase occurs in the comment's text, letter case ignored; the order of the phrases
\* does not matter.
SameLetter(c, d) ==
    \/ c = d
    \/ \E i \in 1..Len(UpperChars) : {c, d} = {UpperChars[i], LowerChars[i]}

OccursIn(phrase, text) ==
    \E offset \in 0..(Len(text) - Len(phrase)) :
        \A k \in 1..Len(phrase) : SameLetter(text[offset + k], phrase[k])

TextOf(comment) == IF "text" \in DOMAIN comment THEN comment["text"] ELSE <<>>

\* the positions in the stream of the comments that hold every phrase
Kept(stream, phrases) ==
    {i \in 1..Len(stream) : \A phrase \in Range(phrases) : OccursIn(phrase, TextOf(stream[i]))}

\* the k-th smallest element of a set of numbers
Nth(set, k) == CHOOSE i \in set : Cardinality({j \in set : j <= i}) = k

Reverse(seq) == [i \in 1..Len(seq) |-> seq[Len(seq) + 1 - i]]

C16_FilterIffAllPhrases ==
    (call.fn = "get_filtered_comments" /\ call.done) =>
        LET stream == call.source.stream
            kept == Kept(stream, call.phrases.items)
        IN /\ Len(call.result) = Cardinality(kept)
           /\ \A k \in 1..Len(call.result) :
                 call.result[k].text = TextOf(stream[Nth(kept, k)])
           /\ call.result = get_filtered_comments(call.video_url,
                                                  JsonList(Reverse(call.phrases.items)),
                                                  call.source)

\* phrases 'A', 'b': the comment 'b' is dropped, the comment 'Ba' after it is kept
C16_Witness ==
    /\ call.fn = "get_filtered_comments"
    /\ call.done
    /\ call.phrases.items = << <<"A">>, <<"b">> >>
    /\ Len(call.source.stream) = 2
    /\ TextOf(call.source.stream[1]) = <<"b">>
    /\ TextOf(call.source.stream[2]) = <<"B", "a">>
    /\ Len(call.result) = 1
    /\ call.result[1].text = <<"B", "a">>

\* C17: a job whose record in the durable file has status processing when the process
\* crashes has status processing in every state after the restart: it is not put on
\* the queue, the worker never picks it up, and it never becomes completed or failed.
\* After a restart the jobs in processing that this lifetime has not started are the
\* ones left over from before the crash.
Stranded ==
    {id \in Known : crashes > 0 /\ StatusOf(id) = "processing" /\ id \notin Range(started)}

C17_StrandedForever ==
    [][/\ crashes' = crashes + 1 =>
             \A i \in 1..Len(LoadedMembers(file)) :
                 file.members[i][2]["status"] = "processing" =>
                     /\ file.members[i][1] \in DOMAIN request_status'
                     /\ request_status'[file.members[i][1]]["status"] = "processing"
                     /\ file.members[i][1] \notin Range(request_queue')
       /\ \A id \in Stranded :
             /\ id \in DOMAIN request_status'
             /\ request_status'[id]["status"] = "processing"
             /\ id \notin Range(request_queue')
             /\ id \notin Range(started')
             /\ worker'.request_id # id]_vars

\* after the restart the worker has completed another job and is idle with an empty
\* queue, and the job left over is still in processing
C17_Witness ==
    /\ crashes = 1
    /\ Stranded # {}
    /\ Len(started) = 1
    /\ StatusOf(started[1]) = "completed"
    /\ worker.pc = "idle"
    /\ request_queue = <<>>

\* C18: while the worker is in the fetch/filter step or the render/send step of a job
\* it does not hold queue_lock: the lock is free or held by a request handler, so a
\* submit that arrives meanwhile takes the lock, enqueues and returns.
LongRunning == worker.pc \in {"fetch", "send"}

C18_NoLockDuringLongWork ==
    LongRunning =>
        /\ queue_lock \in {"free"} \cup Handlers
        /\ \A h \in Handlers :
              (handler[h].pc = "lock" /\ Quiet) =>
                  \/ ENABLED SubmitInsert(h)
                  \/ queue_lock \in Handlers \ {h}

\* a submit has gone through its locked block and returned 200 while the worker was
\* fetching the comments of the job before it
C18_Witness ==
    /\ worker.pc = "fetch"
    /\ response.kind = "submit"
    /\ response.code = 200
    /\ enqueued = <<worker.request_id, response.request_id>>
    /\ StatusOf(response.request_id) = "pending"

\* C19: a failure of the durable write is not propagated.  When it happens during
\* enqueue, submit still stores the job in memory and returns success with status
\* pending; when it happens during a worker transition, the transition stays in
\* effect in memory and the job is not marked failed because of it; the durable file
\* keeps its previous content.
WriteFailed == io_errors' = io_errors + 1

C19_WriteFailureContained ==
    [][WriteFailed =>
          /\ request_status' = request_status
          /\ request_queue' = request_queue
          /\ \A h \in Handlers :
                handler[h].pc = "save" /\ handler'[h].pc = "returned" =>
                    /\ response'.code = 200
                    /\ response'.body["status"] = "pending"
                    /\ handler[h].request_id \in Known
                    /\ StatusOf(handler[h].request_id) \in {"pending", "processing"}
          /\ worker.pc = "save_processing" =>
                /\ worker'.pc = "fetch"
                /\ Current["status"] = "processing"
          /\ worker.pc = "save_completed" =>
                /\ worker'.pc = "idle"
                /\ Current["status"] = "completed"
          /\ file' = file]_vars

\* C20: within one process lifetime a step changes at most one record of the status
\* table.  A changed record is the record of the job the worker is working on, and
\* only its status, completion_time, result and error change: its video_url, phrases,
\* email and submission_time stay.  No record is ever removed.  A new record is the
\* one record submit adds, with status pending, and that step changes no other one.
SubmittedFields == {"video_url", "phrases", "email", "submission_time"}

WorkerFields == {"status", "completion_time", "result", "error"}

Changed == {id \in Known \cap DOMAIN request_status' : request_status'[id] # request_status[id]}

Added == DOMAIN request_status' \ Known

C20_Frame ==
    [][crashes' = crashes =>
          /\ Known \subseteq DOMAIN request_status'
          /\ Cardinality(Changed) + Cardinality(Added) <= 1
          /\ \A id \in Changed :
                /\ id = worker.request_id
                /\ worker.pc \in {"mark_processing", "mark_completed", "set_completion_time",
                                  "set_result", "mark_failed", "set_error"}
                /\ DOMAIN request_status[id] \subseteq DOMAIN request_status'[id]
                /\ DOMAIN request_status'[id] \subseteq SubmittedFields \cup WorkerFields
                /\ \A k \in DOMAIN request_status[id] \ WorkerFields :
                      request_status'[id][k] = request_status[id][k]
          /\ \A id \in Added :
                /\ \E h \in Handlers :
                      /\ handler[h].pc = "lock"
                      /\ handler[h].request_id = id
                      /\ request_status'[id] = handler[h].request_data
                /\ request_status'[id]["status"] = "pending"
                /\ DOMAIN request_status'[id] = SubmittedFields \cup {"status"}]_vars

\* two jobs went through the worker, the first completed and the second failed; both
\* still have what was submitted
C20_Witness ==
    /\ crashes = 0
    /\ worker.pc = "idle"
    /\ Len(started) = 2
    /\ StatusOf(started[1]) = "completed"
    /\ StatusOf(started[2]) = "failed"
    /\ \A id \in Known :
          /\ request_status[id]["video_url"] = URL_WATCH
          /\ request_status[id]["phrases"] = PHRASES_TWO
          /\ request_status[id]["email"] = EMAIL
    /\ request_status[started[1]]["submission_time"] # request_status[started[2]]["submission_time"]

\* C21: for every retained comment the link is the video URL carrying the comment's
\* identifier as an lc query parameter, for watch URLs (which contain '?') and for
\* short youtu.be URLs (which do not); when the source gives no identifier the link
\* is the bare video URL.
RECURSIVE SplitOn(_, _)
SplitOn(s, sep) ==
    IF sep \notin Range(s) THEN <<s>>
    ELSE LET i == CHOOSE i \in 1..Len(s) : s[i] = sep /\ \A k \in 1..(i - 1) : s[k] # sep
         IN <<SubSeq(s, 1, i - 1)>> \o SplitOn(SubSeq(s, i + 1, Len(s)), sep)

\* the query string of a URL: what follows its first '?'
QueryOf(url) ==
    IF "?" \notin Range(url) THEN <<>>
    ELSE LET i == CHOOSE i \in 1..Len(url) : url[i] = "?" /\ \A k \in 1..(i - 1) : url[k] # "?"
         IN SubSeq(url, i + 1, Len(url))

\* the part of a URL before its query string
BeforeQuery(url) == SubSeq(url, 1, Len(url) - Len(QueryOf(url)) - (IF "?" \in Range(url) THEN 1 ELSE 0))

\* link addresses the same resource with the same query parameters as url, plus lc=cid
IsCommentLink(link, url, cid) ==
    /\ "?" \in Range(link)
    /\ BeforeQuery(link) = BeforeQuery(url)
    /\ Range(SplitOn(QueryOf(link), "&")) \ {<<>>} =
          (Range(SplitOn(QueryOf(url), "&")) \ {<<>>}) \cup {<<"l", "c", "=">> \o cid}

C21_CommentLink ==
    (call.fn = "get_filtered_comments" /\ call.done) =>
        LET stream == call.source.stream
            kept == Kept(stream, call.phrases.items)
        IN \A k \in 1..Len(call.result) :
              LET comment == stream[Nth(kept, k)]
              IN IF "cid" \in DOMAIN comment /\ comment["cid"] # <<>>
                 THEN IsCommentLink(call.result[k].link, call.video_url, comment["cid"])
                 ELSE call.result[k].link = call.video_url

\* C22: whenever a status call returns a record whose status is completed, that
\* record holds result (comment_count and email_sent) and completion_time.
C22_CompletedHasResult ==
    (/\ response.kind = "status"
     /\ response.code = 200
     /\ response.body["status"] = "completed") =>
        /\ "completion_time" \in DOMAIN response.body
        /\ "result" \in DOMAIN response.body
        /\ DOMAIN response.body["result"] = {"comment_count", "email_sent"}

\* C23: in every state where no thread holds queue_lock, every entry of the queue is
\* an id of the status table with status pending, no id is in the queue twice, and
\* every job with status pending is in the queue or is the one job the worker has
\* taken from the queue and not yet marked processing.
Dequeued == IF worker.pc = "mark_processing" THEN {worker.request_id} ELSE {}

C23_QueueAgreesWithTable ==
    queue_lock = "free" =>
        /\ \A i \in 1..Len(request_queue) :
              /\ request_queue[i] \in Known
              /\ StatusOf(request_queue[i]) = "pending"
        /\ Cardinality(Range(request_queue)) = Len(request_queue)
        /\ {id \in Known : StatusOf(id) = "pending"} = Range(request_queue) \cup Dequeued
        /\ Range(request_queue) \cap Dequeued = {}

\* the lock is free; the worker has taken one pending job from the queue and the
\* other pending job is still in it
C23_Witness ==
    /\ queue_lock = "free"
    /\ worker.pc = "mark_processing"
    /\ Len(request_queue) = 1
    /\ request_queue[1] # worker.request_id
    /\ StatusOf(worker.request_id) = "pending"
    /\ StatusOf(request_queue[1]) = "pending"

\* C24: when every write of the durable file succeeds, over any submissions, worker
\* steps and crash/restarts the fetch and the mail transport are invoked at most once
\* for each job: no job is processed again, neither after it failed nor after a
\* restart.
NoRepeat(seq) == Cardinality(Range(seq)) = Len(seq)

C24_AtMostOnce ==
    /\ NoRepeat(invoked.fetch)
    /\ NoRepeat(invoked.send)
    /\ \A i \in 1..Len(invoked.send) : invoked.send[i] \in Range(invoked.fetch)

\* a job was fetched and mailed and then lost its final save to a crash; after the
\* restart it is left alone while the job submitted after it is fetched and mailed
C24_Witness ==
    /\ crashes = 1
    /\ Len(invoked.fetch) = 2
    /\ Len(invoked.send) = 2
    /\ Len(started) = 1
    /\ invoked.fetch[1] \in Stranded
    /\ StatusOf(invoked.fetch[2]) = "completed"

\* C25: the jobs a restart rehydrates as pending are put on the queue in the order
\* in which they were put on the queue before the crash, and the restarted worker marks
\* them processing in that order: A before B if A was submitted before B.
Position(seq, x) == CHOOSE i \in 1..Len(seq) : seq[i] = x

InOrderOf(queue, original) ==
    \A i, j \in 1..Len(queue) :
        i < j =>
            /\ queue[i] \in Range(original)
            /\ queue[j] \in Range(original)
            /\ Position(original, queue[i]) < Position(original, queue[j])

C25_RehydrationOrder ==
    [][/\ crashes' = crashes + 1 =>
             /\ InOrderOf(request_queue', enqueued)
             /\ enqueued' = request_queue'
       /\ Len(started') <= Len(enqueued')
       /\ started' = SubSeq(enqueued', 1, Len(started'))]_vars

\* job 2 was put on the queue before job 1, both were pending in the file at the
\* crash, and the restarted worker has marked 2 and then 1
C25_Witness ==
    /\ crashes = 1
    /\ loaded = "valid"
    /\ status_order = <<2, 1>>
    /\ enqueued = <<2, 1>>
    /\ started = <<2, 1>>

====
